---- MODULE Spec2Model ----
(***************************************************************************)
(* FenicsAcoustics.ipynb: the python snippets of the notebook, run by a    *)
(* Python session.  A snippet is one fenced block; a session runs a        *)
(* selection of the snippets in document order, each block compiled on its *)
(* own and then executed statement by statement in one namespace.  Values  *)
(* are the expression trees the statements build.  The boundary marking of *)
(* the Subdomains snippet is modelled in detail on a small mesh (SpecMark). *)
(***************************************************************************)
EXTENDS Integers, Sequences, FiniteSets, TLC

VARIABLES
    sel,       \* the fenced blocks this session runs (document order)
    ns,        \* the namespace: name -> value, Unbound if not bound
    pc,        \* index in Program of the next statement, 0 at the end
    ready,     \* the block of pc has been compiled
    err,       \* "none" or the uncaught exception that ended the run
    failedAt,  \* the statement that raised, 0 if none
    attempts,  \* per statement, how often the session took it on
    storage,   \* what has been written to files
    facets,    \* the facets of the mesh: x[0] and on_boundary
    markers,   \* boundary_markers: facet -> marker
    mpc        \* position in set_all / mark / mark

vars == <<sel, ns, pc, ready, err, failedAt, attempts, storage,
          facets, markers, mpc>>

sessionVars == <<sel, ns, pc, ready, err, failedAt, attempts, storage>>
markVars == <<facets, markers, mpc>>

-----------------------------------------------------------------------------
(* Expression trees: every node is a record [op, id, args].                *)

Nm(s) == [op |-> "name", id |-> s, args |-> <<>>]
Lit(s) == [op |-> "lit", id |-> s, args |-> <<>>]
Op(o, a) == [op |-> o, id |-> "", args |-> a]
Call(f, a) == [op |-> "call", id |-> f, args |-> a]
Method(m, a) == [op |-> "method", id |-> m, args |-> a]
Attr(e, a) == [op |-> "attr", id |-> a, args |-> <<e>>]
Kw(k, e) == [op |-> "kw", id |-> k, args |-> <<e>>]
Quoted(s, a) == [op |-> "def", id |-> s, args |-> a]
Class(c, a) == [op |-> "class", id |-> c, args |-> a]

Unbound == [op |-> "unbound", id |-> "", args |-> <<>>]
Lib(s) == [op |-> "lib", id |-> s, args |-> <<>>]
User(s) == [op |-> "user", id |-> s, args |-> <<>>]
Zero == [op |-> "zero", id |-> "", args |-> <<>>]

Mul(a, b) == Op("mul", <<a, b>>)
Div(a, b) == Op("div", <<a, b>>)
Add(a, b) == Op("add", <<a, b>>)
Sub(a, b) == Op("sub", <<a, b>>)
Neg(a) == Op("neg", <<a>>)
Pow(a, b) == Op("pow", <<a, b>>)
Xor(a, b) == Op("xor", <<a, b>>)
Index(a) == Op("index", a)
Tuple(a) == Op("tuple", a)

P0 == <<>>
P1 == <<"(", ")">>
B1 == <<"[", "]">>

Assign(ln, blk, tgt, val, br) ==
    [line |-> ln, block |-> blk, kind |-> "assign", targets |-> <<Nm(tgt)>>,
     value |-> val, brackets |-> br]

Stmt(ln, blk, k, tgts, val, br) ==
    [line |-> ln, block |-> blk, kind |-> k, targets |-> tgts,
     value |-> val, brackets |-> br]

-----------------------------------------------------------------------------
(* The snippets, one definition per fenced block.                          *)

ImportBlock ==
    << Stmt(18, 1, "import", <<>>, Lit("dolfin"), P0) >>

MeshBlock ==
    << Assign(28, 2, "mesh", Call("Mesh", <<Lit("mesh.xml")>>), P1) >>

ScalarSpaceBlock ==
    << Assign(32, 3, "V",
              Call("FunctionSpace", <<Nm("mesh"), Lit("CG"), Lit("2")>>), P1),
       Assign(33, 3, "p", Call("TrialFunction", <<Nm("V")>>), P1),
       Assign(34, 3, "dp", Call("TestFunction", <<Nm("V")>>), P1) >>

VectorSpaceBlock ==
    << Assign(38, 4, "V",
              Call("VectorFunctionSpace", <<Nm("mesh"), Lit("CG"), Lit("2")>>), P1),
       Assign(39, 4, "u", Call("TrialFunction", <<Nm("V")>>), P1),
       Assign(40, 4, "du", Call("TestFunction", <<Nm("V")>>), P1) >>

InvRho == Div(Lit("1"), Nm("rho"))

\* python precedence: ^ binds looser than + and *, so line 62 reads
\* (-Stiffness + k) ^ (2*MassMatrix + NeumannBC)
PressureBlock ==
    << Assign(57, 5, "n", Call("FacetNormal", <<Nm("mesh")>>), P1),
       Assign(58, 5, "StiffnessMatrix",
              Mul(Mul(InvRho, Call("dot", <<Call("grad", <<Nm("p")>>),
                                            Call("grad", <<Nm("dp")>>)>>)),
                  Nm("dx")),
              <<"(", "(", ")", "(", ")", ")">>),
       Assign(59, 5, "MassMatrix",
              Mul(Mul(Mul(InvRho, Nm("p")), Nm("dp")), Nm("dx")), P0),
       Assign(60, 5, "NeumannBC",
              Mul(Mul(Mul(InvRho, Nm("dp")), Call("dot", <<Nm("p"), Nm("n")>>)),
                  Nm("ds")), P1),
       Assign(61, 5, "forcingFcn",
              Mul(Mul(Mul(InvRho, Nm("dp")), Nm("f")), Nm("dx")), P0),
       Assign(62, 5, "WeakForm",
              Xor(Add(Neg(Nm("Stiffness")), Nm("k")),
                  Add(Mul(Lit("2"), Nm("MassMatrix")), Nm("NeumannBC"))), P0) >>

II(a, b) == Index(<<Nm("I"), Nm(a), Nm(b)>>)
IJKL == Tuple(<<Nm("i"), Nm("j"), Nm("k"), Nm("l")>>)

\* line 70 leaves the parenthesis of as_tensor open; the tree is the text with
\* the missing parenthesis supplied at the end of the line
StiffnessTensorBlock ==
    << Assign(69, 6, "I", Call("identity", <<Lit("2")>>), P1),
       Assign(70, 6, "C",
              Call("as_tensor",
                   <<Add(Mul(Mul(Nm("K"), II("i", "j")), II("k", "l")),
                         Mul(Nm("mu"),
                             Tuple(<<Sub(Add(Mul(II("i", "k"), II("j", "l")),
                                             Mul(II("i", "l"), II("j", "k"))),
                                         Mul(Mul(Div(Lit("2."), Lit("3")),
                                                 II("i", "j")), II("k", "l"))),
                                     IJKL>>)))>>),
              <<"(">> \o B1 \o B1 \o <<"(">> \o B1 \o B1 \o B1 \o B1 \o B1 \o B1
                      \o P1 \o <<")">>) >>

SymGrad(x) ==
    Mul(Lit("0.5"), Add(Call("grad", <<Nm(x)>>),
                        Call("transpose", <<Call("grad", <<Nm(x)>>)>>)))

SymGradBrackets == <<"(", "(", ")", "(", "(", ")", ")", ")">>

ElasticityBlock ==
    << Stmt(76, 7, "assign", <<Nm("StrainU"), SymGrad("u")>>,
            Call("sym", <<Call("grad", <<Nm("u")>>)>>),
            SymGradBrackets \o <<"(", "(", ")", ")">>),
       Assign(77, 7, "StrainDu", SymGrad("du"), SymGradBrackets),
       Assign(78, 7, "StressU",
              Call("as_tensor",
                   <<Mul(Index(<<Nm("C"), Nm("i"), Nm("j"), Nm("k"), Nm("l")>>),
                         Index(<<Nm("StrainU"), Nm("k"), Nm("l")>>)),
                     Tuple(<<Nm("i"), Nm("j")>>)>>),
              <<"(">> \o B1 \o B1 \o P1 \o <<")">>),
       Assign(79, 7, "WeakForm",
              Sub(Sub(Mul(Call("inner", <<Nm("StressU"), Nm("StrainDu")>>), Nm("dx")),
                      Mul(Mul(Mul(Pow(Nm("omega"), Lit("2")), Nm("rho")),
                              Call("dot", <<Nm("u"), Nm("du")>>)), Nm("dx"))),
                  Mul(Mul(Nm("p"), Call("dot", <<Nm("du"), Nm("n")>>)), Nm("ds"))),
              P1 \o P1 \o P1) >>

NonlinearBlock ==
    << Assign(89, 8, "F", Add(Call("grad", <<Nm("u")>>), Nm("I")), P1),
       Assign(90, 8, "C", Mul(Attr(Nm("F"), "T"), Nm("F")), P0),
       Assign(91, 8, "E", Mul(Lit("0.5"), Sub(Nm("C"), Nm("I"))), P1),
       Assign(92, 8, "W",
              Add(Mul(Div(Nm("lmbda"), Lit("2")),
                      Pow(Call("tr", <<Nm("E")>>), Lit("2"))),
                  Mul(Nm("mu"), Call("tr", <<Mul(Nm("E"), Nm("E"))>>))),
              P1 \o P1),
       Assign(93, 8, "E", Call("variable", <<Nm("E")>>), P1),
       Assign(94, 8, "S", Call("diff", <<Nm("W"), Nm("E")>>), P1) >>

\* def inside(self, x, on_boundary): tol = 1E-14;
\*     return on_boundary and near(x[0], 0, tol)
InsideBody ==
    Quoted("inside",
           <<Lit("on_boundary"), Lit("near"), Lit("x[0]"), Lit("0"), Lit("1E-14")>>)

ClassBrackets == P1 \o P1 \o <<"(">> \o B1 \o <<")">>

SubdomainsBlock ==
    << Stmt(104, 9, "class", <<Nm("GammaN")>>,
            Class("GammaN", <<Nm("SubDomain"), InsideBody>>), ClassBrackets),
       Stmt(109, 9, "class", <<Nm("GammaD")>>,
            Class("GammaD", <<Nm("SubDomain"), InsideBody>>), ClassBrackets),
       Assign(113, 9, "NeumannBoundary", Call("GammaN", <<>>), P1),
       Assign(114, 9, "DirichletBoundary", Call("GammaD", <<>>), P1),
       Assign(115, 9, "boundary_markers",
              Call("FacetFunction", <<Lit("size_t"), Nm("mesh")>>), P1),
       Stmt(116, 9, "mutate", <<Nm("boundary_markers")>>,
            Method("set_all", <<Nm("boundary_markers"), Lit("0")>>), P1),
       Stmt(117, 9, "mutate", <<Nm("boundary_markers")>>,
            Method("mark", <<Nm("DirichletBoundary"), Nm("boundary_markers"),
                             Lit("1")>>), P1),
       Stmt(118, 9, "mutate", <<Nm("boundary_markers")>>,
            Method("mark", <<Nm("NeumannBoundary"), Nm("boundary_markers"),
                             Lit("2")>>), P1),
       Assign(119, 9, "ds",
              Call("Measure", <<Lit("ds"), Kw("domain", Nm("mesh")),
                                Kw("subdomain_data", Nm("boundary_markers"))>>), P1),
       Assign(120, 9, "bc",
              Call("DirichletBC", <<Nm("V"), Call("Constant", <<Lit("0.0")>>),
                                    Nm("DirichletBoundary")>>),
              <<"(", "(", ")", ")">>) >>

SolveBlock ==
    << Stmt(130, 10, "mutate", <<Nm("u")>>,
            Call("solve", <<Op("eq", <<Nm("WeakForm"), Nm("forcingFcn")>>),
                            Nm("u"), Nm("bc")>>), P1),
       Assign(131, 10, "file", Call("File", <<Lit("u.pvd")>>), P1),
       Stmt(132, 10, "write", <<>>, Op("lshift", <<Nm("file"), Nm("u")>>), P0),
       Stmt(133, 10, "expr", <<>>, Call("plot", <<Nm("u")>>), P1) >>

Program ==
    ImportBlock \o MeshBlock \o ScalarSpaceBlock \o VectorSpaceBlock
    \o PressureBlock \o StiffnessTensorBlock \o ElasticityBlock
    \o NonlinearBlock \o SubdomainsBlock \o SolveBlock

NumStmts == Len(Program)
Blocks == {Program[i].block : i \in 1..NumStmts}
StmtAt(ln) == CHOOSE i \in 1..NumStmts : Program[i].line = ln

-----------------------------------------------------------------------------
(* The namespace.                                                          *)

\* the names the snippets take from `from dolfin import *`
DolfinNames ==
    {"Mesh", "FunctionSpace", "VectorFunctionSpace", "TrialFunction",
     "TestFunction", "FacetNormal", "dot", "grad", "dx", "ds", "identity",
     "as_tensor", "transpose", "sym", "inner", "tr", "variable", "diff",
     "SubDomain", "FacetFunction", "Measure", "DirichletBC", "Constant",
     "solve", "File", "plot", "i", "j", "l"}

\* the parameters no snippet defines: the reader supplies them
Params == {"rho", "f", "k", "K", "mu", "omega", "lmbda"}

\* names the session may or may not hold already when the run starts
OptionalNames == {"Stiffness", "I"}

Targets ==
    UNION {{Program[i].targets[t].id : t \in 1..Len(Program[i].targets)} :
               i \in 1..NumStmts} \ {""}

Names == DolfinNames \cup Params \cup OptionalNames \cup Targets

RECURSIVE FreeNames(_)
FreeNames(e) ==
    CASE e.op = "name" -> {e.id}
      [] e.op \in {"lit", "def"} -> {}
      [] OTHER ->
           (IF e.op = "call" THEN {e.id} ELSE {})
           \cup UNION {FreeNames(e.args[n]) : n \in 1..Len(e.args)}

RECURSIVE Occurs(_, _)
Occurs(v, t) ==
    \/ t = v
    \/ \E n \in 1..Len(t.args) : Occurs(v, t.args[n])

\* diff(W, E): the derivative with respect to the variable object E; an
\* expression that does not contain that object has derivative zero
Diff(v) ==
    IF Occurs(v.args[3], v.args[2]) THEN v ELSE Zero

Apply(v) ==
    IF v.op = "call" /\ v.id = "diff" THEN Diff(v) ELSE v

RECURSIVE Eval(_, _)
Eval(e, env) ==
    CASE e.op = "name" -> env[e.id]
      [] e.op \in {"lit", "def"} -> e
      [] OTHER ->
           LET a == [n \in 1..Len(e.args) |-> Eval(e.args[n], env)]
           IN  Apply([e EXCEPT !.args =
                         IF e.op = "call" THEN <<env[e.id]>> \o a ELSE a])

-----------------------------------------------------------------------------
(* Compiling a block.                                                      *)

Closes(open, close) ==
    \/ open = "(" /\ close = ")"
    \/ open = "[" /\ close = "]"

RECURSIVE Match(_, _)
Match(br, stack) ==
    IF br = <<>> THEN stack = <<>>
    ELSE IF Head(br) \in {"(", "["}
         THEN Match(Tail(br), <<Head(br)>> \o stack)
         ELSE /\ stack # <<>>
              /\ Closes(Head(stack), Head(br))
              /\ Match(Tail(br), Tail(stack))

Balanced(br) == Match(br, <<>>)

Assignable(t) == t.op \in {"name", "attr", "index"}

StmtOk(i) ==
    /\ Balanced(Program[i].brackets)
    /\ \A t \in 1..Len(Program[i].targets) : Assignable(Program[i].targets[t])

StmtsOf(b) == {i \in 1..NumStmts : Program[i].block = b}
BlockOk(b) == \A i \in StmtsOf(b) : StmtOk(i)
FirstBad(b) ==
    CHOOSE i \in StmtsOf(b) :
        ~StmtOk(i) /\ \A j \in StmtsOf(b) : ~StmtOk(j) => i <= j

-----------------------------------------------------------------------------
(* The session.                                                            *)

Min(S) == CHOOSE x \in S : \A y \in S : x <= y

\* the statement after i among the selected blocks, 0 at the end
NextIdx(i, s) ==
    LET later == {j \in 1..NumStmts : j > i /\ Program[j].block \in s}
    IN  IF later = {} THEN 0 ELSE Min(later)

NewBlock(i, j) == i = 0 \/ j = 0 \/ Program[i].block # Program[j].block

\* nothing in the snippets catches an exception: the first one ends the run
RunnableIgnoringErrors == pc # 0
Runnable == err = "none" /\ pc # 0

Bound(i) == \A n \in FreeNames(Program[i].value) : ns[n] # Unbound

\* file << u: the left operand is the File, the right operand is written
WriteEffectSwapped(v) ==
    [file |-> v.args[1].args[2].id, data |-> v.args[1]]
WriteEffect(v) ==
    [file |-> v.args[1].args[2].id, data |-> v.args[2]]

Bind(i, env) ==
    LET s == Program[i] IN
    CASE s.kind = "import" ->
           [n \in Names |-> IF n \in DolfinNames THEN Lib(n) ELSE env[n]]
      [] s.kind \in {"assign", "class", "mutate"} ->
           [env EXCEPT ![s.targets[1].id] = Eval(s.value, env)]
      [] OTHER -> env

Written(i, env) ==
    IF Program[i].kind = "write"
    THEN {WriteEffect(Eval(Program[i].value, env))}
    ELSE {}

Fail(i, kind) ==
    /\ err' = kind
    /\ failedAt' = i
    /\ attempts' = [attempts EXCEPT ![i] = @ + 1]
    /\ UNCHANGED <<sel, ns, pc, ready, storage>>

Compile ==
    /\ Runnable /\ ~ready
    /\ BlockOk(Program[pc].block)
    /\ ready' = TRUE
    /\ UNCHANGED <<sel, ns, pc, err, failedAt, attempts, storage>>
    /\ UNCHANGED markVars

CompileFail ==
    /\ Runnable /\ ~ready
    /\ ~BlockOk(Program[pc].block)
    /\ Fail(FirstBad(Program[pc].block), "SyntaxError")
    /\ UNCHANGED markVars

ExecOk ==
    /\ Runnable /\ ready
    /\ Bound(pc)
    /\ ns' = Bind(pc, ns)
    /\ storage' = storage \cup Written(pc, ns)
    /\ attempts' = [attempts EXCEPT ![pc] = @ + 1]
    /\ pc' = NextIdx(pc, sel)
    /\ ready' = (ready /\ ~NewBlock(pc, pc'))
    /\ UNCHANGED <<sel, err, failedAt>>
    /\ UNCHANGED markVars

ExecNameError ==
    /\ Runnable /\ ready
    /\ ~Bound(pc)
    /\ Fail(pc, "NameError")
    /\ UNCHANGED markVars

\* a call into the library may raise
ExecRaise ==
    /\ Runnable /\ ready
    /\ Bound(pc)
    /\ Fail(pc, "LibraryError")
    /\ UNCHANGED markVars

Ns0(pre) ==
    [n \in Names |-> IF n \in Params \cup pre THEN User(n) ELSE Unbound]

InitSession(s, pre) ==
    /\ sel = s
    /\ ns = Ns0(pre)
    /\ pc = NextIdx(0, s)
    /\ ready = FALSE
    /\ err = "none"
    /\ failedAt = 0
    /\ attempts = [i \in 1..NumStmts |-> 0]
    /\ storage = {}

-----------------------------------------------------------------------------
(* Subdomains: marking the facets of a mesh.  Coordinates are in units of  *)
(* 1E-14, the tolerance of the two inside methods.                         *)

NumFacets == 2
MaxCoord == 2
Tol == 1

Facets == 1..NumFacets
Coords == 0..MaxCoord
MarkerVals == 0..2

Near(x, x0, eps) == x0 - eps <= x /\ x <= x0 + eps

GammaN_inside(x, on_boundary) == on_boundary /\ Near(x, 0, Tol)
GammaD_inside(x, on_boundary) == on_boundary /\ Near(x, 0, Tol)

Inside(sub, fct) ==
    IF sub = "GammaN" THEN GammaN_inside(fct.x0, fct.on_boundary)
                      ELSE GammaD_inside(fct.x0, fct.on_boundary)

\* SubDomain.mark(markers, v): every facet inside the subdomain gets v
Mark(sub, m, v) ==
    [fc \in Facets |-> IF Inside(sub, facets[fc]) THEN v ELSE m[fc]]

SetAll ==
    /\ mpc = "set_all"
    /\ markers' = [fc \in Facets |-> 0]
    /\ mpc' = "markD"
    /\ UNCHANGED facets
    /\ UNCHANGED sessionVars

MarkDirichlet ==
    /\ mpc = "markD"
    /\ markers' = Mark("GammaD", markers, 1)
    /\ mpc' = "markN"
    /\ UNCHANGED facets
    /\ UNCHANGED sessionVars

MarkNeumann ==
    /\ mpc = "markN"
    /\ markers' = Mark("GammaN", markers, 2)
    /\ mpc' = "marked"
    /\ UNCHANGED facets
    /\ UNCHANGED sessionVars

FacetData == [x0 : Coords, on_boundary : BOOLEAN]

-----------------------------------------------------------------------------
(* The specifications.                                                     *)

Init ==
    /\ \E s \in SUBSET Blocks, pre \in SUBSET OptionalNames : InitSession(s, pre)
    /\ facets = [fc \in Facets |-> [x0 |-> 0, on_boundary |-> TRUE]]
    /\ markers = [fc \in Facets |-> 0]
    /\ mpc = "idle"

Next == Compile \/ CompileFail \/ ExecOk \/ ExecNameError \/ ExecRaise

Spec == Init /\ [][Next]_vars

\* FacetFunction('size_t', mesh) does not initialise the markers
InitMark ==
    /\ InitSession({}, {})
    /\ facets \in [Facets -> FacetData]
    /\ markers \in [Facets -> MarkerVals]
    /\ mpc = "set_all"

NextMark == SetAll \/ MarkDirichlet \/ MarkNeumann

SpecMark == InitMark /\ [][NextMark]_vars

-----------------------------------------------------------------------------
(* Properties.                                                             *)

\* statement i is the last one the session took on
JustRan(i) == attempts[i] = 1 /\ \A j \in 1..NumStmts : j > i => attempts[j] = 0

InsideSet(sub) == {fc \in Facets : Inside(sub, facets[fc])}
Marked(v) == {fc \in Facets : markers[fc] = v}

\* C1: after set_all(0), DirichletBoundary.mark(.,1) and NeumannBoundary.mark(.,2)
\* no facet is inside both GammaD and GammaN, the facets marked 1 are exactly
\* those inside GammaD and the facets marked 2 exactly those inside GammaN.
C1_DistinctRegions ==
    mpc = "marked" =>
        /\ InsideSet("GammaD") \cap InsideSet("GammaN") = {}
        /\ Marked(1) = InsideSet("GammaD")
        /\ Marked(2) = InsideSet("GammaN")

\* C2: when a statement fails it was attempted exactly once, no statement is
\* ever attempted twice, no later statement is attempted, and a failure at or
\* before the solve leaves nothing written.
C2_NoRecovery ==
    err # "none" =>
        /\ failedAt # 0 /\ attempts[failedAt] = 1
        /\ \A j \in 1..NumStmts : attempts[j] <= 1
        /\ \A j \in 1..NumStmts : j > failedAt => attempts[j] = 0
        /\ failedAt <= StmtAt(130) => storage = {}

C2_FailedSolve ==
    /\ err = "LibraryError" /\ failedAt = StmtAt(130)
    /\ attempts[StmtAt(132)] = 0 /\ attempts[StmtAt(133)] = 0

RECURSIVE Factors(_)
Factors(t) ==
    IF t.op = "mul" THEN Factors(t.args[1]) \cup Factors(t.args[2]) ELSE {t}

RECURSIVE Terms(_, _)
Terms(t, positive) ==
    CASE t.op = "add" -> Terms(t.args[1], positive) \cup Terms(t.args[2], positive)
      [] t.op = "sub" -> Terms(t.args[1], positive) \cup Terms(t.args[2], ~positive)
      [] t.op = "neg" -> Terms(t.args[1], ~positive)
      [] OTHER -> {[positive |-> positive, factors |-> Factors(t)]}

Val(e) == Eval(e, ns)

\* C3: once line 62 has run without the library raising, WeakForm is the sum of exactly three terms,
\* + k**2 times MassMatrix = (1/rho)*p*dp*dx, - StiffnessMatrix =
\* (1/rho)*dot(grad(p),grad(dp))*dx, + NeumannBC = (1/rho)*dp*dot(grad(p),n)*ds,
\* each the value of a name the snippet defines, and forcingFcn is
\* (1/rho)*f*dp*dx.
C3_HelmholtzWeakForm ==
    (JustRan(StmtAt(62)) /\ err # "LibraryError") =>
        /\ err = "none"
        /\ Factors(ns["MassMatrix"]) = {Val(InvRho), ns["p"], ns["dp"], ns["dx"]}
        /\ Factors(ns["StiffnessMatrix"]) =
               {Val(InvRho), ns["dx"],
                Val(Call("dot", <<Call("grad", <<Nm("p")>>),
                                  Call("grad", <<Nm("dp")>>)>>))}
        /\ Factors(ns["NeumannBC"]) =
               {Val(InvRho), ns["dp"], ns["ds"],
                Val(Call("dot", <<Call("grad", <<Nm("p")>>), Nm("n")>>))}
        /\ Factors(ns["forcingFcn"]) = {Val(InvRho), ns["f"], ns["dp"], ns["dx"]}
        /\ Terms(ns["WeakForm"], TRUE) =
               {[positive |-> TRUE,
                 factors |-> {Val(Pow(Nm("k"), Lit("2")))}
                             \cup Factors(ns["MassMatrix"])],
                [positive |-> FALSE, factors |-> Factors(ns["StiffnessMatrix"])],
                [positive |-> TRUE, factors |-> Factors(ns["NeumannBC"])]}

ClaimedC ==
    Call("as_tensor",
         <<Add(Mul(Mul(Nm("K"), II("i", "j")), II("k", "l")),
               Mul(Nm("mu"),
                   Sub(Add(Mul(II("i", "k"), II("j", "l")),
                           Mul(II("i", "l"), II("j", "k"))),
                       Mul(Mul(Div(Lit("2."), Lit("3")), II("i", "j")),
                           II("k", "l"))))),
           IJKL>>)

\* C4: once line 70 has run, C is as_tensor of K*I[i,j]*I[k,l] + mu*(I[i,k]*I[j,l]
\* + I[i,l]*I[j,k] - 2./3*I[i,j]*I[k,l]) with the index tuple (i,j,k,l) as the
\* second argument of as_tensor and the -(2/3) term inside the factor of mu.
C4_StiffnessTensor ==
    JustRan(StmtAt(70)) =>
        /\ err = "none" => ns["C"] = Val(ClaimedC)
        /\ err # "SyntaxError"

\* C5: once line 94 has run, W depends on the object E that diff differentiates
\* with respect to, and S is the derivative of W with respect to it, not zero.
C5_SecondPiola ==
    (JustRan(StmtAt(94)) /\ err = "none") =>
        /\ Occurs(ns["E"], ns["W"])
        /\ ns["S"] = [op |-> "call", id |-> "diff",
                      args |-> <<ns["diff"], ns["W"], ns["E"]>>]

\* C6 as stated: no step of the workflow writes a domain object to storage.
C6_NeverPersisted == storage = {}

\* C6: the only write to storage is that of line 132, file << u, which writes
\* the object bound to u to u.pvd; no other step writes and nothing else is
\* written.
C6_OnlySolutionExported ==
    storage # {} =>
        /\ attempts[StmtAt(132)] = 1
        /\ storage = {[file |-> "u.pvd", data |-> ns["u"]]}

C6_Exported == storage # {} /\ pc = 0 /\ err = "none"

RECURSIVE Spaces(_)
Spaces(t) ==
    (IF t.op = "call" /\ t.id \in {"TrialFunction", "TestFunction"}
     THEN {t.args[2]} ELSE {})
    \cup UNION {Spaces(t.args[n]) : n \in 1..Len(t.args)}

AtSolveCall ==
    /\ err = "none" /\ pc = StmtAt(130) /\ ready
    /\ Bound(StmtAt(130))

BcSpace == ns["bc"].args[2]

\* C8: at the call solve(WeakForm==forcingFcn,u,bc) the trial and test functions
\* of WeakForm and forcingFcn are of one function space, that space is the space
\* bc constrains, and u is of that space.
C8_OneProblem ==
    AtSolveCall =>
        /\ Spaces(ns["WeakForm"]) = {BcSpace}
        /\ Spaces(ns["forcingFcn"]) = {BcSpace}
        /\ Spaces(ns["u"]) = {BcSpace}

====
